---- MODULE Spec2Model ----
(***************************************************************************)
(* Model of src/src/distributed-lock.ts: the DistributedLock class over a  *)
(* key-value store (one key space split over shards, per-key expiry), with *)
(* each awaited store command of acquireLock, releaseLock, withLock and    *)
(* safeSet as one atomic step, the passage of time as Tick, and store or   *)
(* transport failures as alternative outcomes of every command.            *)
(*                                                                         *)
(* Spec        callers of all four methods on resource names, any failure  *)
(* SpecSafeSet callers of safeSet only, reliable store                     *)
(* SpecTimely  guarded work that ends before its marker expires            *)
(* SpecAnyTtl  managers constructed with any TTL, positive or not          *)
(* SpecAnyKey  callers that pass keys of the lock namespace too            *)
(***************************************************************************)
EXTENDS Integers, Sequences, FiniteSets, TLC

\* ------------------------------------------------------------------ bounds
NumManagers == 2
NumSlots == 2
MaxTtl == 2
NumShards == 2

Managers == 1..NumManagers
Slots == 1..NumSlots

\* Names callers pass as resource name or data key, and the payloads.
Names == {"k"}
FnResults == {"r1", "r2"}

\* TTL arguments: the constructor's lockTtlSeconds and safeSet's ttl ("*" is NoExpiry).
NoExpiry == -1
LockTtls == 1..MaxTtl
DataTtls == {NoExpiry} \cup (1..MaxTtl)

\* ------------------------------------------------------------- the manager
\* The value a call of slot t writes: concurrent calls write distinct values.
Val(t) == "v" \o ToString(t)

\* One identity shared by every instance.
clientId_Shared(m) == "id0"

\* this.clientId: one identity per instance, distinct between instances.
clientId(m) == "id" \o ToString(m)

ClientIds == {clientId(m) : m \in Managers}

\* The lock key without its prefix: the data key itself.
LockKey_NoPrefix(n) == n

\* `lock:${key}`
LockKey(n) == "lock:" \o n

\* Any string is accepted as key argument, one that starts with lock: too.
AnyNames == Names \cup {LockKey(n) : n \in Names}

\* The keys of the lock namespace: the keys of the form lock:<name>.
LockKeys == {LockKey(n) : n \in AnyNames}

Keys == AnyNames \cup LockKeys

\* --------------------------------------------------------------- the store
\* An entry of the key space: its value, the seconds it has left (NoExpiry for
\* none) and, as history no command reads, the seconds since it was written.
Absent == [val |-> "nil", ttl |-> 0, age |-> 0]

Entry(v, ttl) == [val |-> v, ttl |-> ttl, age |-> 0]

\* GET key
Get(s, key) == s[key].val

\* The conditional set with its condition left out: it overwrites.
SetNX_Overwrite(s, key, v, ttl) ==
    [store |-> [s EXCEPT ![key] = Entry(v, ttl)], reply |-> "OK"]

\* The conditional set that restarts the expiry of the entry it finds.
SetNX_Refresh(s, key, v, ttl) ==
    IF s[key] = Absent
    THEN [store |-> [s EXCEPT ![key] = Entry(v, ttl)], reply |-> "OK"]
    ELSE [store |-> [s EXCEPT ![key] = Entry(s[key].val, ttl)], reply |-> "null"]

\* The conditional set that takes an entry in its last second for gone.
SetNX_Early(s, key, v, ttl) ==
    IF s[key] = Absent \/ s[key].ttl = 1
    THEN [store |-> [s EXCEPT ![key] = Entry(v, ttl)], reply |-> "OK"]
    ELSE [store |-> s, reply |-> "null"]

\* SET key value EX ttl NX: writes only if the key does not exist; replies OK or null.
SetNX(s, key, v, ttl) ==
    IF s[key] = Absent
    THEN [store |-> [s EXCEPT ![key] = Entry(v, ttl)], reply |-> "OK"]
    ELSE [store |-> s, reply |-> "null"]

\* SET key value [EX ttl]: unconditional write.
Set(s, key, v, ttl) ==
    [store |-> [s EXCEPT ![key] = Entry(v, ttl)], reply |-> "OK"]

\* The release without its comparison: a plain del.
releaseLockScript_NoCompare(s, key, id) ==
    IF s[key] # Absent
    THEN [store |-> [s EXCEPT ![key] = Absent], reply |-> 1]
    ELSE [store |-> s, reply |-> 0]

\* The release that reports the match and does not delete.
releaseLockScript_NoDelete(s, key, id) ==
    [store |-> s, reply |-> IF Get(s, key) = id THEN 1 ELSE 0]

\* The release that compares with the key name, not the identity.
releaseLockScript_WrongArg(s, key, id) ==
    IF Get(s, key) = key
    THEN [store |-> [s EXCEPT ![key] = Absent], reply |-> 1]
    ELSE [store |-> s, reply |-> 0]

\* if get(ARGV[1]) == ARGV[2] then return del(ARGV[1]) else return 0 end
releaseLockScript(s, key, id) ==
    IF Get(s, key) = id
    THEN [store |-> [s EXCEPT ![key] = Absent], reply |-> 1]
    ELSE [store |-> s, reply |-> 0]

\* Expiry one second late: an entry is removed the second after its last.
Expire_Late(s) ==
    [key \in Keys |->
        IF s[key].ttl = NoExpiry \/ s[key] = Absent THEN s[key]
        ELSE IF s[key].ttl = 0 THEN Absent
        ELSE [s[key] EXCEPT !.ttl = @ - 1, !.age = @ + 1]]

\* One second passes: every expiring entry loses a second, and is removed at zero.
Expire(s) ==
    [key \in Keys |->
        IF s[key].ttl = NoExpiry \/ s[key] = Absent THEN s[key]
        ELSE IF s[key].ttl = 1 THEN Absent
        ELSE [s[key] EXCEPT !.ttl = @ - 1, !.age = @ + 1]]

\* --------------------------------------------------------------- the cluster
\* The key space is split over shards by the hash slot of the key; every shard
\* has a primary, which executes writes and scripts, and replicas that follow it.
Shards == 0..(NumShards - 1)

SlotOf(key) == Len(key) % NumShards

Node(shard, role) == [shard |-> shard, role |-> role]

\* createClient({addresses, readFrom: 'preferReplica'})
readFrom == "preferReplica"

\* The node a route names.
NodeOf(route) ==
    IF route.type = "primarySlotKey" THEN Node(SlotOf(route.key), "primary")
    ELSE Node(SlotOf(route.key), "replica")

\* The route of a command sent without one: by the slot of its key, a
\* read-only command to where readFrom says, any other to the primary.
DefaultRoute(readOnly, key) ==
    [type |-> IF readOnly /\ readFrom = "preferReplica" THEN "replicaSlotKey"
              ELSE "primarySlotKey",
     key |-> key]

\* The release script routed as a read of the lock key.
ScriptRoute_AsRead(key) == DefaultRoute(TRUE, key)

\* route: { type: "primarySlotKey", key: lockKey }
ScriptRoute(key) == [type |-> "primarySlotKey", key |-> key]

\* What a command on `key` does when sent to `node`: on the primary of the
\* key's slot it executes, with result `done`; any other node does not hold
\* the key to write, and the store stays as it is, with reply `refused`.
ExecAt(node, key, s, done, refused) ==
    IF node = Node(SlotOf(key), "primary") THEN done
    ELSE [store |-> s, reply |-> refused]

\* A command's fate: executed and answered, refused or never delivered (an
\* error reaches the caller), or executed with the answer lost (an error too).
Outcomes == {"ok", "fail", "lost"}

\* The store after a command of outcome o whose execution would leave `after`.
Effect(o, before, after) == IF o = "fail" THEN before ELSE after

\* -------------------------------------------------------------- completions
Ret(v) == [kind |-> "return", v |-> v]
Throw(src) == [kind |-> "throw", v |-> src]
None == [kind |-> "none", v |-> "none"]

NoCall == [slot |-> 0, mgr |-> 0, op |-> "none", name |-> "none", issued |-> <<>>,
           pending |-> None, result |-> None]

VARIABLES
    lockTtlSeconds,  \* [Managers -> LockTtls]: this.lockTtlSeconds
    store,           \* [Keys -> entry]: the cluster's key space
    pc,              \* [Slots -> position of the call in progress]
    mgr,             \* [Slots -> manager instance the method is called on]
    op,              \* [Slots -> method called]
    name,            \* [Slots -> key argument]
    issued,          \* [Slots -> commands the call has issued so far]
    pending,         \* [Slots -> completion of the try block, held during finally]
    returned,        \* the call the last step completed, with what its caller observes
    owns             \* [Slots -> the marker the call's conditional set wrote is still
                     \*  in the store], history no command reads

vars == <<lockTtlSeconds, store, pc, mgr, op, name, issued, pending, returned, owns>>

Init ==
    /\ lockTtlSeconds \in [Managers -> LockTtls]
    /\ store = [key \in Keys |-> Absent]
    /\ pc = [t \in Slots |-> "idle"]
    /\ mgr = [t \in Slots |-> 0]
    /\ op = [t \in Slots |-> "none"]
    /\ name = [t \in Slots |-> "none"]
    /\ issued = [t \in Slots |-> <<>>]
    /\ pending = [t \in Slots |-> None]
    /\ returned = NoCall
    /\ owns = [t \in Slots |-> FALSE]

\* The call of slot t goes on to position `to` after command cmd, the try
\* block's completion so far being tryc.
Advance(t, to, cmd, tryc) ==
    /\ pc' = [pc EXCEPT ![t] = to]
    /\ issued' = [issued EXCEPT ![t] = Append(@, cmd)]
    /\ pending' = [pending EXCEPT ![t] = tryc]
    /\ returned' = NoCall
    /\ UNCHANGED <<mgr, op, name>>

\* The call of slot t ends after command cmd: its caller observes c, and the
\* slot is free for the caller's next call.
Complete(t, cmd, c) ==
    /\ returned' = [slot |-> t, mgr |-> mgr[t], op |-> op[t], name |-> name[t],
                    issued |-> Append(issued[t], cmd),
                    pending |-> pending[t], result |-> c]
    /\ pc' = [pc EXCEPT ![t] = "idle"]
    /\ mgr' = [mgr EXCEPT ![t] = 0]
    /\ op' = [op EXCEPT ![t] = "none"]
    /\ name' = [name EXCEPT ![t] = "none"]
    /\ issued' = [issued EXCEPT ![t] = <<>>]
    /\ pending' = [pending EXCEPT ![t] = None]

\* The positions of a call between its acquisition and the end of its release.
Section == {"fn", "write", "held", "release"}

\* History: a call owns its marker from the step whose conditional set wrote
\* it until the step that removes or replaces the entry, or that ends the call.
Track ==
    owns' = [u \in Slots |->
                /\ pc'[u] \in Section
                /\ owns[u] \/ pc[u] = "acquire"
                /\ store'[LockKey(name'[u])].val = clientId(mgr'[u])]

\* The conditional set both acquireLock and safeSet issue.
LockSet(t) ==
    ExecAt(NodeOf(DefaultRoute(FALSE, LockKey(name[t]))), LockKey(name[t]), store,
           SetNX(store, LockKey(name[t]), clientId(mgr[t]), lockTtlSeconds[mgr[t]]),
           "null")

\* The script invocation both releaseLock and safeSet issue.
LockScript(t) ==
    ExecAt(NodeOf(ScriptRoute(LockKey(name[t]))), LockKey(name[t]), store,
           releaseLockScript(store, LockKey(name[t]), clientId(mgr[t])),
           0)

\* !!lockAcquired, result === 1
Bool(b) == IF b THEN "true" ELSE "false"

\* The completion of try/finally: a finally block that throws replaces the
\* try block's completion, one that completes normally lets it through.
Finally(tryCompletion, finallyThrew) ==
    IF finallyThrew THEN Throw("release") ELSE tryCompletion

\* ------------------------------------------------------------------ calls
\* A caller invokes a method on the manager of slot t.
Methods == {"acquireLock", "releaseLock", "withLock", "safeSet"}

CallOn(t, methods, names) ==
    /\ pc[t] = "idle"
    /\ \E m \in Managers, o \in methods, n \in names :
        /\ mgr' = [mgr EXCEPT ![t] = m]
        /\ op' = [op EXCEPT ![t] = o]
        /\ name' = [name EXCEPT ![t] = n]
        /\ pc' = [pc EXCEPT ![t] = IF o = "releaseLock" THEN "release" ELSE "acquire"]
    /\ returned' = NoCall
    /\ UNCHANGED <<lockTtlSeconds, store, issued, pending>>
    /\ Track

\* A call whose key argument is a resource name outside the lock namespace.
Call(t, methods) == CallOn(t, methods, Names)

\* acquireLock: the conditional set, and return !!lockAcquired.
acquireLock(t, O) ==
    /\ pc[t] = "acquire" /\ op[t] = "acquireLock"
    /\ \E o \in O :
        /\ store' = Effect(o, store, LockSet(t).store)
        /\ Complete(t, "setnx", IF o = "ok" THEN Ret(Bool(LockSet(t).reply = "OK"))
                                ELSE Throw("acquire"))
    /\ UNCHANGED lockTtlSeconds
    /\ Track

\* releaseLock: the script, and return result === 1.
releaseLock(t, O) ==
    /\ pc[t] = "release" /\ op[t] = "releaseLock"
    /\ \E o \in O :
        /\ store' = Effect(o, store, LockScript(t).store)
        /\ Complete(t, "script", IF o = "ok" THEN Ret(Bool(LockScript(t).reply = 1))
                                 ELSE Throw("release"))
    /\ UNCHANGED lockTtlSeconds
    /\ Track

\* withLock that goes on to the operation although the lock was denied.
withLock_acquire_Unchecked(t, O) ==
    /\ pc[t] = "acquire" /\ op[t] = "withLock"
    /\ \E o \in O :
        /\ store' = Effect(o, store, LockSet(t).store)
        /\ IF o # "ok" THEN Complete(t, "setnx", Throw("acquire"))
           ELSE Advance(t, "fn", "setnx", None)
    /\ UNCHANGED lockTtlSeconds
    /\ Track

\* withLock: await this.acquireLock(key); return null when denied.
withLock_acquire(t, O) ==
    /\ pc[t] = "acquire" /\ op[t] = "withLock"
    /\ \E o \in O :
        /\ store' = Effect(o, store, LockSet(t).store)
        /\ IF o # "ok" THEN Complete(t, "setnx", Throw("acquire"))
           ELSE IF LockSet(t).reply = "OK" THEN Advance(t, "fn", "setnx", None)
           ELSE Complete(t, "setnx", Ret("null"))
    /\ UNCHANGED lockTtlSeconds
    /\ Track

\* withLock: return await fn(), which resolves or rejects; finally comes next.
withLock_fn(t) ==
    /\ pc[t] = "fn" /\ op[t] = "withLock"
    /\ \E c \in {Ret(r) : r \in FnResults} \cup {Throw("fn")} :
        Advance(t, "release", "fn", c)
    /\ UNCHANGED <<lockTtlSeconds, store>>
    /\ Track

\* withLock: finally { await this.releaseLock(key) }.
withLock_release(t, O) ==
    /\ pc[t] = "release" /\ op[t] = "withLock"
    /\ \E o \in O :
        /\ store' = Effect(o, store, LockScript(t).store)
        /\ Complete(t, "script", Finally(pending[t], o # "ok"))
    /\ UNCHANGED lockTtlSeconds
    /\ Track

\* safeSet that goes on to the write although the lock was denied.
safeSet_acquire_Unchecked(t, O) ==
    /\ pc[t] = "acquire" /\ op[t] = "safeSet"
    /\ \E o \in O :
        /\ store' = Effect(o, store, LockSet(t).store)
        /\ IF o # "ok" THEN Complete(t, "setnx", Throw("acquire"))
           ELSE Advance(t, "write", "setnx", None)
    /\ UNCHANGED lockTtlSeconds
    /\ Track

\* safeSet: the conditional set on the lock key; return false when denied.
safeSet_acquire(t, O) ==
    /\ pc[t] = "acquire" /\ op[t] = "safeSet"
    /\ \E o \in O :
        /\ store' = Effect(o, store, LockSet(t).store)
        /\ IF o # "ok" THEN Complete(t, "setnx", Throw("acquire"))
           ELSE IF LockSet(t).reply = "OK" THEN Advance(t, "write", "setnx", None)
           ELSE Complete(t, "setnx", Ret("false"))
    /\ UNCHANGED lockTtlSeconds
    /\ Track

\* safeSet: the data write, then success = true; finally comes next.
safeSet_writeWith(t, O, ttls) ==
    /\ pc[t] = "write" /\ op[t] = "safeSet"
    /\ \E o \in O, ttl \in ttls :
        /\ store' = Effect(o, store, Set(store, name[t], Val(t), ttl).store)
        /\ Advance(t, "release", "set", IF o = "ok" THEN Ret("true") ELSE Throw("write"))
    /\ UNCHANGED lockTtlSeconds
    /\ Track

\* safeSet called with any ttl argument.
safeSet_write(t, O) == safeSet_writeWith(t, O, DataTtls)

\* safeSet: finally { the release script }, then return success.
safeSet_release(t, O) ==
    /\ pc[t] = "release" /\ op[t] = "safeSet"
    /\ \E o \in O :
        /\ store' = Effect(o, store, LockScript(t).store)
        /\ Complete(t, "script", Finally(pending[t], o # "ok"))
    /\ UNCHANGED lockTtlSeconds
    /\ Track

\* A caller locks by hand: acquireLock, and if it returned true the critical
\* work, then releaseLock on the same manager and name.
manual_acquire(t, O) ==
    /\ pc[t] = "acquire" /\ op[t] = "manual"
    /\ \E o \in O :
        /\ store' = Effect(o, store, LockSet(t).store)
        /\ IF o # "ok" THEN Complete(t, "setnx", Throw("acquire"))
           ELSE IF LockSet(t).reply = "OK" THEN Advance(t, "held", "setnx", None)
           ELSE Complete(t, "setnx", Ret("false"))
    /\ UNCHANGED lockTtlSeconds
    /\ Track

\* The caller's critical work ends; the caller calls releaseLock next.
manual_work(t) ==
    /\ pc[t] = "held" /\ op[t] = "manual"
    /\ Advance(t, "release", "work", None)
    /\ UNCHANGED <<lockTtlSeconds, store>>
    /\ Track

\* The caller's releaseLock: the script, and result === 1.
manual_release(t, O) ==
    /\ pc[t] = "release" /\ op[t] = "manual"
    /\ \E o \in O :
        /\ store' = Effect(o, store, LockScript(t).store)
        /\ Complete(t, "script", IF o = "ok" THEN Ret(Bool(LockScript(t).reply = 1))
                                 ELSE Throw("release"))
    /\ UNCHANGED lockTtlSeconds
    /\ Track

\* A second of wall-clock time at the store.
Tick ==
    /\ \E key \in Keys : store[key].ttl > 0
    /\ store' = Expire(store)
    /\ returned' = NoCall
    /\ UNCHANGED <<lockTtlSeconds, pc, mgr, op, name, issued, pending>>
    /\ Track

Next ==
    \/ \E t \in Slots : Call(t, Methods)
    \/ \E t \in Slots : acquireLock(t, Outcomes)
    \/ \E t \in Slots : releaseLock(t, Outcomes)
    \/ \E t \in Slots : withLock_acquire(t, Outcomes)
    \/ \E t \in Slots : withLock_fn(t)
    \/ \E t \in Slots : withLock_release(t, Outcomes)
    \/ \E t \in Slots : safeSet_acquire(t, Outcomes)
    \/ \E t \in Slots : safeSet_write(t, Outcomes)
    \/ \E t \in Slots : safeSet_release(t, Outcomes)
    \/ Tick

Spec == Init /\ [][Next]_vars

\* Callers that only call safeSet, over a store that answers every command.
NextSafeSet ==
    \/ \E t \in Slots : Call(t, {"safeSet"})
    \/ \E t \in Slots : safeSet_acquire(t, {"ok"})
    \/ \E t \in Slots : safeSet_write(t, {"ok"})
    \/ \E t \in Slots : safeSet_release(t, {"ok"})
    \/ Tick

SpecSafeSet == Init /\ [][NextSafeSet]_vars

\* No call that is past its acquisition has its marker in its last second.
Timely ==
    \A t \in Slots : owns[t] => store[LockKey(name[t])].ttl # 1

\* A second passes that expires no marker whose holder has yet to release it.
TickTimely == Timely /\ Tick

\* Callers that guard their work by withLock, by safeSet or by hand, each
\* finishing before its marker expires, over a store that may fail.
NextTimely ==
    \/ \E t \in Slots : Call(t, {"withLock", "safeSet", "manual"})
    \/ \E t \in Slots : withLock_acquire(t, Outcomes)
    \/ \E t \in Slots : withLock_fn(t)
    \/ \E t \in Slots : withLock_release(t, Outcomes)
    \/ \E t \in Slots : safeSet_acquire(t, Outcomes)
    \/ \E t \in Slots : safeSet_write(t, Outcomes)
    \/ \E t \in Slots : safeSet_release(t, Outcomes)
    \/ \E t \in Slots : manual_acquire(t, Outcomes)
    \/ \E t \in Slots : manual_work(t)
    \/ \E t \in Slots : manual_release(t, Outcomes)
    \/ TickTimely

SpecTimely == Init /\ [][NextTimely]_vars

\* The constructor keeps whatever number it is given as lockTtlSeconds.
CtorTtls == (-1)..MaxTtl

InitAnyTtl ==
    /\ lockTtlSeconds \in [Managers -> CtorTtls]
    /\ store = [key \in Keys |-> Absent]
    /\ pc = [t \in Slots |-> "idle"]
    /\ mgr = [t \in Slots |-> 0]
    /\ op = [t \in Slots |-> "none"]
    /\ name = [t \in Slots |-> "none"]
    /\ issued = [t \in Slots |-> <<>>]
    /\ pending = [t \in Slots |-> None]
    /\ returned = NoCall
    /\ owns = [t \in Slots |-> FALSE]

\* The fate of the conditional set of slot t: a SET whose expiry count is not
\* positive is refused with an error and writes nothing.
SetOutcomes(t) == IF lockTtlSeconds[mgr[t]] >= 1 THEN {"ok"} ELSE {"fail"}

\* Managers constructed with any TTL, over a store that is otherwise reliable.
NextAnyTtl ==
    \/ \E t \in Slots : Call(t, Methods)
    \/ \E t \in Slots : acquireLock(t, SetOutcomes(t))
    \/ \E t \in Slots : releaseLock(t, {"ok"})
    \/ \E t \in Slots : withLock_acquire(t, SetOutcomes(t))
    \/ \E t \in Slots : withLock_fn(t)
    \/ \E t \in Slots : withLock_release(t, {"ok"})
    \/ \E t \in Slots : safeSet_acquire(t, SetOutcomes(t))
    \/ \E t \in Slots : safeSet_write(t, {"ok"})
    \/ \E t \in Slots : safeSet_release(t, {"ok"})
    \/ Tick

SpecAnyTtl == InitAnyTtl /\ [][NextAnyTtl]_vars

\* Callers that pass any key and leave safeSet's ttl at its default, over a
\* store that answers every command.
NextAnyKey ==
    \/ \E t \in Slots : CallOn(t, Methods, AnyNames)
    \/ \E t \in Slots : acquireLock(t, {"ok"})
    \/ \E t \in Slots : releaseLock(t, {"ok"})
    \/ \E t \in Slots : withLock_acquire(t, {"ok"})
    \/ \E t \in Slots : withLock_fn(t)
    \/ \E t \in Slots : withLock_release(t, {"ok"})
    \/ \E t \in Slots : safeSet_acquire(t, {"ok"})
    \/ \E t \in Slots : safeSet_writeWith(t, {"ok"}, {NoExpiry})
    \/ \E t \in Slots : safeSet_release(t, {"ok"})
    \/ Tick

SpecAnyKey == Init /\ [][NextAnyKey]_vars

\* ------------------------------------------------------- reading a step
\* The manager whose identity is v.
Owner(v) == CHOOSE m \in Managers : clientId(m) = v

\* Slot t executes its conditional set in this step.
SetStep(t) == pc[t] = "acquire" /\ pc'[t] # "acquire"

\* Slot t executes its release script in this step.
ScriptStep(t) == pc[t] = "release" /\ pc'[t] = "idle"

\* The step completes a call whose caller gets an answer (not an error).
Answered == returned'.result.kind = "return"

\* ------------------------------------------------------------------- C1
\* C1: every acquireLock the store answers returns true exactly when the lock
\* key was absent, and then leaves the caller's identity in it; a denial leaves
\* the marker in place. So of N acquireLock calls racing for an absent key with
\* no release or expiry in between, the first to reach the store returns true
\* and each of the other N-1 finds the marker and returns false.
C1_MutualExclusion ==
    [][\A t \in Slots :
        (SetStep(t) /\ op[t] = "acquireLock" /\ Answered) =>
            LET K == LockKey(name[t]) IN
            /\ (returned'.result = Ret("true")) <=> (store[K] = Absent)
            /\ returned'.result \in {Ret("true"), Ret("false")}
            /\ returned'.result = Ret("true") =>
                   store'[K].val = clientId(mgr[t])
            /\ returned'.result = Ret("false") =>
                   store'[K] = store[K] /\ store[K].val \in ClientIds]_vars

\* An acquireLock was denied because another identity had just won the key.
C1_Witness ==
    /\ returned.op = "acquireLock"
    /\ returned.result = Ret("false")
    /\ store[LockKey(returned.name)].val \in ClientIds \ {clientId(returned.mgr)}
    /\ store[LockKey(returned.name)].age = 0

\* ------------------------------------------------------------------- C2
\* C2: a release script run for identity X while the lock key does not hold X
\* (absent, or another manager's marker) changes nothing in the store, neither
\* value nor expiry, whatever becomes of its answer, and a releaseLock that is
\* answered then returns false.
C2_OwnershipGatedRelease ==
    [][\A t \in Slots :
        (ScriptStep(t) /\ store[LockKey(name[t])].val # clientId(mgr[t])) =>
            /\ store' = store
            /\ (op[t] = "releaseLock" /\ Answered) => returned'.result = Ret("false")]_vars

\* A releaseLock of one manager returned false and left the marker that
\* another manager acquired in the meantime, with its value and expiry.
C2_Witness ==
    /\ returned.op = "releaseLock"
    /\ returned.result = Ret("false")
    /\ store[LockKey(returned.name)].val \in ClientIds \ {clientId(returned.mgr)}
    /\ store[LockKey(returned.name)].age > 0

\* ------------------------------------------------------------------- C3
\* C3: an answered releaseLock returns true exactly when the lock key held the
\* caller's identity as the script ran, and the key is absent right after; run
\* on an absent key (a second release with no acquire in between) it returns
\* false and changes nothing.
C3_ReleaseIffOwner ==
    [][\A t \in Slots :
        (ScriptStep(t) /\ op[t] = "releaseLock" /\ Answered) =>
            LET K == LockKey(name[t]) IN
            /\ (returned'.result = Ret("true")) <=> (store[K].val = clientId(mgr[t]))
            /\ returned'.result \in {Ret("true"), Ret("false")}
            /\ returned'.result = Ret("true") =>
                   /\ store'[K] = Absent
                   /\ \A key \in Keys \ {K} : store'[key] = store[key]
            /\ store[K] = Absent =>
                   returned'.result = Ret("false") /\ store' = store]_vars

\* The owner's releaseLock returned true and the marker is gone.
C3_Witness ==
    /\ returned.op = "releaseLock"
    /\ returned.result = Ret("true")
    /\ store[LockKey(returned.name)] = Absent

\* ------------------------------------------------------------------- C4
\* C4: whenever a withLock call whose operation raised a failure returns to
\* its caller, the release script has been issued, the caller observes the
\* operation's failure and, unless the release itself failed, the caller's
\* identity no longer holds the lock key.
C4_CleanupOnFailure ==
    (returned.op = "withLock" /\ returned.pending = Throw("fn")) =>
        /\ returned.issued = <<"setnx", "fn", "script">>
        /\ returned.result = Throw("fn")
        /\ returned.result # Throw("release") =>
               store[LockKey(returned.name)].val # clientId(returned.mgr)

\* ------------------------------------------------------------------- C5
\* C5: whenever withLock or safeSet returns to its caller after the guarded
\* operation or the data write failed, the caller observes that original
\* failure, also when the release failed too.
C5_ReleaseFailureNeverReplaces ==
    (returned.op \in {"withLock", "safeSet"} /\ returned.pending.kind = "throw") =>
        returned.result = returned.pending

\* ------------------------------------------------------------------- C6
\* C6: whenever withLock returns to its caller after the operation completed
\* normally with result r, the caller observes r, whatever the release did.
C6_ResultNotConflated ==
    (returned.op = "withLock" /\ returned.pending.kind = "return") =>
        returned.result = returned.pending

\* ------------------------------------------------------------------- C7
\* C7: whenever safeSet returns to its caller, it returns true exactly when the
\* lock was acquired and the write completed, false exactly when the
\* acquisition was denied, and a failure when the write failed.
C7_SafeSetResult ==
    returned.op = "safeSet" =>
        /\ (returned.result = Ret("true")) <=> (returned.pending = Ret("true"))
        /\ (returned.result = Ret("false")) <=>
               (returned.issued = <<"setnx">> /\ returned.result.kind = "return")
        /\ returned.pending = Throw("write") => returned.result.kind = "throw"

\* ------------------------------------------------------------------- C8
\* C8: a withLock or safeSet whose conditional set is answered while the lock
\* key exists ends in that very step: withLock returns null and safeSet false,
\* the conditional set is the only command the call issued (no operation, no
\* write, no release) and the store, marker expiry included, is as before.
C8_DeniedChangesNothing ==
    [][\A t \in Slots :
        (/\ SetStep(t) /\ op[t] \in {"withLock", "safeSet"}
         /\ store[LockKey(name[t])] # Absent
         /\ returned'.result.kind # "throw") =>
            /\ pc'[t] = "idle"
            /\ returned'.slot = t
            /\ returned'.result = IF op[t] = "withLock" THEN Ret("null") ELSE Ret("false")
            /\ returned'.issued = <<"setnx">>
            /\ store' = store]_vars

\* A withLock was denied by a marker of its own manager, some seconds old.
C8_Witness ==
    /\ returned.op = "withLock"
    /\ returned.result = Ret("null")
    /\ store[LockKey(returned.name)].val = clientId(returned.mgr)
    /\ store[LockKey(returned.name)].age > 0

\* ------------------------------------------------------------------- C9
\* A marker in a lock key belongs to a safeSet call of that manager which is
\* between its acquisition and its release.
NoLeak ==
    \A n \in Names :
        store[LockKey(n)] # Absent =>
            \E t \in Slots :
                /\ name[t] = n /\ pc[t] \in {"write", "release"}
                /\ clientId(mgr[t]) = store[LockKey(n)].val

\* C9: with only safeSet calls and a store that answers every command, a lock
\* key holds a marker only while a safeSet call of that manager is between its
\* acquisition and its release, so it is absent once all calls have completed;
\* a safeSet that starts while no other call is in progress acquires the lock;
\* every call that acquires writes its own value and returns true, every other
\* returns false having written nothing; and the data key changes only by such
\* a write or by its own expiry.
C9_SafeSetNoLeak ==
    /\ []NoLeak
    /\ [][\A t \in Slots :
            /\ (SetStep(t) /\ \A u \in Slots \ {t} : pc[u] = "idle") => pc'[t] = "write"
            /\ (SetStep(t) /\ pc'[t] = "idle") =>
                   /\ returned'.result = Ret("false")
                   /\ store' = store
            /\ (pc[t] = "write" /\ pc'[t] # "write") =>
                   /\ store'[name[t]].val = Val(t)
                   /\ pending'[t] = Ret("true")
            /\ ScriptStep(t) =>
                   /\ returned'.result = Ret("true")
                   /\ returned'.issued = <<"setnx", "set", "script">>]_vars
    /\ [][\A n \in Names :
            store'[n] # store[n] =>
                \/ Tick
                \/ \E t \in Slots : pc[t] = "write" /\ pc'[t] # "write" /\ name[t] = n]_vars

\* A safeSet returned true, its value is the stored one, no call is in
\* progress and the lock key is absent.
C9_Witness ==
    /\ returned.op = "safeSet"
    /\ returned.result = Ret("true")
    /\ \A t \in Slots : pc[t] = "idle"
    /\ store[LockKey(returned.name)] = Absent
    /\ store[returned.name].val = Val(returned.slot)

\* ------------------------------------------------------------------ C10
\* A marker carries its manager's TTL: it has seconds left, and those and the
\* seconds it has lived add up to the TTL it was written with.
MarkerClock ==
    \A n \in Names :
        LET e == store[LockKey(n)] IN
        e # Absent =>
            /\ e.val \in ClientIds
            /\ e.ttl >= 1
            /\ e.ttl + e.age = lockTtlSeconds[Owner(e.val)]

\* C10: a marker lives exactly the TTL of the manager that wrote it: it leaves
\* the store either by the release script of its own identity or by the tick
\* that ends its last second, and that tick does remove it; while it is there
\* every answered acquireLock, of any identity, returns false, and once it is
\* gone an answered acquireLock returns true and writes a marker with the
\* caller's own TTL.
C10_ExpirySelfHeals ==
    /\ []MarkerClock
    /\ [][\A n \in Names :
            LET K == LockKey(n) IN
            /\ (store[K] # Absent /\ store'[K] = Absent) =>
                   \/ Tick /\ store[K].ttl = 1
                   \/ \E t \in Slots : /\ ScriptStep(t) /\ name[t] = n
                                       /\ clientId(mgr[t]) = store[K].val
            /\ (Tick /\ store[K].ttl = 1) => store'[K] = Absent
            /\ \A t \in Slots :
                   (SetStep(t) /\ op[t] = "acquireLock" /\ name[t] = n /\ Answered) =>
                       IF store[K] # Absent
                       THEN returned'.result = Ret("false")
                       ELSE /\ returned'.result = Ret("true")
                            /\ store'[K] = Entry(clientId(mgr[t]),
                                                 lockTtlSeconds[mgr[t]])]_vars

\* An acquireLock of another identity was denied in the last second of a
\* marker that has lived all but that second of its TTL.
C10_Witness ==
    /\ returned.op = "acquireLock"
    /\ returned.result = Ret("false")
    /\ LET e == store[LockKey(returned.name)] IN
           /\ e.val \in ClientIds \ {clientId(returned.mgr)}
           /\ e.ttl = 1
           /\ e.age >= 1

\* ------------------------------------------------------------------ C11
\* The functions of two withLock calls on one key are executing at once.
FnOverlap ==
    \E t, u \in Slots :
        t # u /\ pc[t] = "fn" /\ pc[u] = "fn" /\ name[t] = name[u]

\* C11 as stated: at no time are the functions of two withLock calls on the
\* same key executing simultaneously.
C11_ExclusiveFn == ~FnOverlap

\* C11, amended: exclusion lasts as long as the marker does. A withLock
\* function starts only with its own marker in the store and while no other
\* function on that key still has its marker; of the functions running on one
\* key at most one has its marker in the store; and a running function loses
\* its marker only by the tick that ends the marker's last second or by a
\* release script run for the same manager's identity by another call.
C11_ExclusiveWhileOwned ==
    /\ [](\A t, u \in Slots :
            (t # u /\ pc[t] = "fn" /\ pc[u] = "fn" /\ name[t] = name[u]) =>
                ~(owns[t] /\ owns[u]))
    /\ [][\A t \in Slots :
            LET K == LockKey(name[t]) IN
            /\ (pc[t] = "acquire" /\ pc'[t] = "fn") =>
                   /\ store[K] = Absent
                   /\ owns'[t]
                   /\ \A u \in Slots \ {t} :
                          (pc[u] = "fn" /\ name[u] = name[t]) => ~owns[u]
            /\ (pc[t] = "fn" /\ pc'[t] = "fn" /\ owns[t] /\ ~owns'[t]) =>
                   \/ Tick /\ store[K].ttl = 1
                   \/ \E u \in Slots \ {t} :
                          /\ ScriptStep(u) /\ name[u] = name[t]
                          /\ mgr[u] = mgr[t]]_vars

\* Two withLock functions run on one key: the marker of the first expired
\* while its function ran, and the second acquired and has its marker.
C11_Witness ==
    \E t, u \in Slots :
        /\ t # u /\ pc[t] = "fn" /\ pc[u] = "fn" /\ name[t] = name[u]
        /\ mgr[t] # mgr[u]
        /\ ~owns[t] /\ owns[u]

\* ------------------------------------------------------------------ C12
\* C12: no manager operates with a TTL that is not strictly positive: every
\* call made on a manager whose lockTtlSeconds is zero or negative ends with an
\* error.
C12_NonPositiveTtlRejected ==
    (returned.mgr \in Managers /\ lockTtlSeconds[returned.mgr] < 1) =>
        returned.result.kind = "throw"

\* ------------------------------------------------------------------ C13
\* C13: in every reachable state no key of the lock namespace, that is of the
\* form lock:<name>, exists without a TTL.
C13_MarkersCarryExpiry ==
    \A K \in LockKeys : store[K] # Absent => store[K].ttl >= 1

\* ------------------------------------------------------------------ C14
\* C14: the value at a key of the lock namespace changes only from absent to
\* the identity of the manager whose conditional set acquires that key, or
\* from an identity to absent by that identity's release script or by expiry;
\* it never changes from one value directly to another.
C14_NeverMutatedInPlace ==
    [][\A K \in LockKeys :
        store'[K].val # store[K].val =>
            \/ /\ store[K] = Absent
               /\ \E t \in Slots : /\ SetStep(t) /\ LockKey(name[t]) = K
                                   /\ store'[K].val = clientId(mgr[t])
            \/ /\ store[K].val \in ClientIds
               /\ store'[K] = Absent
               /\ \/ Tick
                  \/ \E t \in Slots : /\ ScriptStep(t) /\ LockKey(name[t]) = K
                                      /\ store[K].val = clientId(mgr[t])]_vars

\* ------------------------------------------------------------------ C15
\* C15: for every name, the lock key differs from the data key of that name;
\* the data write of safeSet(k, v) changes the data key k and nothing else, so
\* it leaves the marker of resource k as it was, present or absent; and the
\* conditional set and the release script of resource k leave the data key k
\* as it was, so no identity written by acquiring k shows under data key k.
C15_NamespaceIsolation ==
    /\ [](\A n \in AnyNames : LockKey(n) # n)
    /\ [][\A t \in Slots :
            /\ (pc[t] = "write" /\ pc'[t] # "write") =>
                   /\ store'[LockKey(name[t])] = store[LockKey(name[t])]
                   /\ store'[name[t]].val = Val(t)
                   /\ \A key \in Keys \ {name[t]} : store'[key] = store[key]
            /\ (SetStep(t) \/ ScriptStep(t)) =>
                   /\ store'[name[t]] = store[name[t]]
                   /\ \A key \in Keys \ {LockKey(name[t])} :
                          store'[key] = store[key]]_vars

\* A safeSet on a key that starts with lock: has written its value under that
\* key, and the marker of that name, its own, is in place under another key.
C15_Witness ==
    \E t \in Slots :
        /\ pc[t] = "release" /\ op[t] = "safeSet"
        /\ name[t] \in LockKeys
        /\ store[name[t]].val = Val(t)
        /\ store[LockKey(name[t])].val = clientId(mgr[t])
        /\ owns[t]

\* ------------------------------------------------------------------ C16
\* C16: an acquireLock whose conditional set finds the lock key present,
\* whoever holds it, ends in that very step having issued that one command and
\* nothing else, leaves the whole store, the marker's value and remaining
\* expiry included, as it was, and where the store answers returns false.
C16_DeniedAcquireIsFinal ==
    [][\A t \in Slots :
        (/\ SetStep(t) /\ op[t] = "acquireLock"
         /\ store[LockKey(name[t])] # Absent) =>
            /\ pc'[t] = "idle"
            /\ returned'.slot = t
            /\ returned'.issued = <<"setnx">>
            /\ store' = store
            /\ Answered => returned'.result = Ret("false")]_vars

\* An acquireLock was denied by a marker of its own manager that is some
\* seconds old and keeps the seconds it had left.
C16_Witness ==
    /\ returned.op = "acquireLock"
    /\ returned.result = Ret("false")
    /\ LET e == store[LockKey(returned.name)] IN
           /\ e.val = clientId(returned.mgr)
           /\ e.age >= 1
           /\ e.ttl + e.age = lockTtlSeconds[returned.mgr]

\* ------------------------------------------------------------------ C17
\* C17: at the store, each lock key alternates between absent and held. A
\* conditional set writes a marker only into an absent key, and then no call
\* in progress still has a marker there; a marker in place is never rewritten;
\* it leaves only by the release script of its own identity or by the tick
\* that ends its last second. So between two winning acquisitions of a key the
\* earlier marker was removed by a release or by expiry, and the key records
\* at most one holder: one identity, owned by at most one call in progress.
C17_AcquireRemoveAlternate ==
    /\ [](\A n \in Names :
            LET K == LockKey(n) IN
            /\ store[K].val \in ClientIds \cup {Absent.val}
            /\ \A t, u \in Slots :
                   (owns[t] /\ owns[u] /\ name[t] = n /\ name[u] = n) => t = u
            /\ \A t \in Slots :
                   (owns[t] /\ name[t] = n) => store[K].val = clientId(mgr[t]))
    /\ [][\A n \in Names :
            LET K == LockKey(n) IN
            /\ \A t \in Slots :
                   (SetStep(t) /\ name[t] = n /\ store'[K] # store[K]) =>
                       /\ store[K] = Absent
                       /\ store'[K] = Entry(clientId(mgr[t]), lockTtlSeconds[mgr[t]])
                       /\ \A u \in Slots : name[u] = n => ~owns[u]
            /\ (store[K] # Absent /\ store'[K] # Absent) =>
                   /\ store'[K].val = store[K].val
                   /\ store'[K].age >= store[K].age
            /\ (store[K] = Absent /\ store'[K] # Absent) =>
                   \E t \in Slots :
                       /\ SetStep(t) /\ name[t] = n
                       /\ op[t] \in {"acquireLock", "withLock", "safeSet"}
            /\ (store[K] # Absent /\ store'[K] = Absent) =>
                   \/ Tick /\ store[K].ttl = 1
                   \/ \E t \in Slots :
                          /\ ScriptStep(t) /\ name[t] = n
                          /\ clientId(mgr[t]) = store[K].val]_vars

\* An acquireLock has just won a key whose earlier winner, a guarded call of
\* another manager still in progress, lost its marker to expiry.
C17_Witness ==
    /\ returned.op = "acquireLock"
    /\ returned.result = Ret("true")
    /\ store[LockKey(returned.name)] =
           Entry(clientId(returned.mgr), lockTtlSeconds[returned.mgr])
    /\ \E u \in Slots :
           /\ pc[u] \in {"fn", "write"} /\ name[u] = returned.name
           /\ mgr[u] # returned.mgr
           /\ ~owns[u]

\* ------------------------------------------------------------------ C18
\* C18: every release script, of releaseLock and of the cleanup of withLock
\* and safeSet, is sent to the primary of the slot of the lock key, the node
\* the conditional set on that key was sent to, whatever readFrom says; so a
\* script that is executed does to the store what the compare-and-delete does
\* on the marker as it stands, and the cleanup of a call whose marker is
\* still in place removes it.
C18_ReleaseOnPrimary ==
    [][\A t \in Slots :
        ScriptStep(t) =>
            LET K == LockKey(name[t])
                node == NodeOf(ScriptRoute(K)) IN
            /\ node = Node(SlotOf(K), "primary")
            /\ node = NodeOf(DefaultRoute(FALSE, K))
            /\ node # NodeOf(DefaultRoute(TRUE, K))
            /\ store' \in {store, releaseLockScript(store, K, clientId(mgr[t])).store}
            /\ (owns[t] /\ returned'.result # Throw("release")) =>
                   store'[K] = Absent]_vars

\* A safeSet has completed whose data key and lock key lie on different
\* shards: its cleanup, sent to the lock key's shard, removed its marker.
C18_Witness ==
    /\ returned.op = "safeSet"
    /\ returned.result = Ret("true")
    /\ SlotOf(returned.name) # SlotOf(LockKey(returned.name))
    /\ store[LockKey(returned.name)] = Absent
    /\ store[returned.name].val = Val(returned.slot)

\* ------------------------------------------------------------------ C19
\* The call of slot t is in its critical section: the function of a withLock,
\* the data write of a safeSet, or the work between a successful acquireLock
\* and its releaseLock.
InCritical(t) == pc[t] \in {"fn", "write", "held"}

\* C19: while no marker expires before its holder has released it, no two
\* calls are in critical sections guarded by the same name, whichever of
\* withLock, safeSet and acquireLock/releaseLock guards each and whichever
\* managers, the same one included, they are called on; every call past its
\* acquisition still has its marker, and a critical section is entered only
\* while no other call on that name is past its acquisition.
C19_CriticalSectionsExclusive ==
    /\ [](\A t, u \in Slots :
            (InCritical(t) /\ InCritical(u) /\ name[t] = name[u]) => t = u)
    /\ [](\A t \in Slots :
            (InCritical(t) \/ (pc[t] = "release" /\ op[t] # "releaseLock")) =>
                owns[t])
    /\ [][\A t \in Slots :
            (~InCritical(t) /\ InCritical(t)') =>
                \A u \in Slots \ {t} : name[u] = name[t] => pc[u] \notin Section]_vars

\* A safeSet was denied while a call of its own manager, locking by hand, is
\* in its critical work on that name.
C19_Witness ==
    /\ returned.op = "safeSet"
    /\ returned.result = Ret("false")
    /\ \E t \in Slots :
           /\ pc[t] = "held" /\ name[t] = returned.name
           /\ mgr[t] = returned.mgr
           /\ store[LockKey(name[t])].age >= 1

\* ------------------------------------------------------------------ C20
\* C20: the cleanup release of a guarded call whose own marker is gone (the
\* call outlived its TTL) does not delete the marker of another call on that
\* name that acquired later and is still in its guarded operation, also when
\* both calls are made on the same manager.
C20_ReleaseOnlyOwnAcquisition ==
    [][\A t, u \in Slots :
        (/\ t # u
         /\ ScriptStep(t) /\ op[t] \in {"withLock", "safeSet"} /\ ~owns[t]
         /\ pc[u] \in {"fn", "write"} /\ name[u] = name[t] /\ owns[u]) =>
            /\ owns'[u]
            /\ store'[LockKey(name[u])] = store[LockKey(name[u])]]_vars

====
